---- MODULE Spec2Model ----
(***************************************************************************)
(* Runtime value representation (DDVal / DDValue, decl_ddval_convert!) and *)
(* dynamic closures (Closure, ClosureImpl, Box<dyn Closure>) of            *)
(* src/lib/ddlog_rt.rs, as a state machine.                                *)
(*                                                                         *)
(* Memory is modelled at the level the code works at: an erased cell is a  *)
(* machine word of WordSize bytes with no type tag; a small value is its   *)
(* bytes copied into the low-address bytes of the word; a large value      *)
(* lives in an Arc block and the word holds the block's address.           *)
(***************************************************************************)
EXTENDS Integers, Sequences, FiniteSets, TLC

VARIABLES heap, cells, pc, clo, inp, ret

vars == <<heap, cells, pc, clo, inp, ret>>

(***************************************************************************)
(* Bounds of the model.                                                    *)
(***************************************************************************)
NThreads == 2
MaxCells == 2
MaxBlocks == 2
MaxClo == 3

Handles == 1..MaxCells
Blocks == 1..MaxBlocks
CloSlots == 1..MaxClo

(***************************************************************************)
(* The target: size_of::<usize>(), on a 64-bit build.                      *)
(***************************************************************************)
WordSize == 8

\* ---------------------------------------------------------------- bytes

RECURSIVE LEBytes(_, _)
\* The k low-order bytes of n >= 0, lowest address first (to_ne_bytes).
LEBytes(n, k) == IF k = 0 THEN <<>> ELSE <<n % 256>> \o LEBytes(n \div 256, k - 1)

RECURSIVE LEValue(_)
\* The unsigned integer whose in-memory bytes are bs.
LEValue(bs) == IF bs = <<>> THEN 0 ELSE bs[1] + 256 * LEValue(Tail(bs))

RECURSIVE Pow2(_)
Pow2(n) == IF n = 0 THEN 1 ELSE 2 * Pow2(n - 1)

\* ---------------------------------------------------------------- types

\* The registered types the model carries (lines 656-670), with size_of.
SizeOf ==
  [unit |-> 0, bool |-> 1, i8 |-> 1, u16 |-> 2, i16 |-> 2, u64 |-> 8,
   u128 |-> 16, String |-> 24]

Types == DOMAIN SizeOf

Signed == {"i8", "i16"}

\* Values of each type the model draws its inputs from.  The unit value is
\* <<>>, a String is its sequence of bytes.
Values ==
  [unit |-> {<<>>},
   bool |-> {FALSE, TRUE},
   i8 |-> {-128, -1, 0, 1, 127},
   u16 |-> {0, 1, 255, 256, 65535},
   i16 |-> {-32768, -1, 0, 255, 256},
   u64 |-> {0, 1, 255, 65536, 16777215},
   u128 |-> {0, 1, 2, 300},
   String |-> {<<>>, <<97>>, <<97, 98>>, <<98>>}]

\* The in-memory bytes of value x of an inline type t (transmute::<T, [u8; N]>).
ToBytes(t, x) ==
  CASE t = "unit" -> <<>>
    [] t = "bool" -> <<IF x THEN 1 ELSE 0>>
    [] OTHER -> LEBytes(IF x < 0 THEN x + Pow2(8 * SizeOf[t]) ELSE x, SizeOf[t])

\* The value of type t whose in-memory bytes are bs (transmute::<[u8; N], T>).
FromBytes(t, bs) ==
  CASE t = "unit" -> <<>>
    [] t = "bool" -> bs[1] # 0
    [] OTHER ->
         LET u == LEValue(bs)
         IN  IF t \in Signed /\ u >= Pow2(8 * SizeOf[t] - 1)
               THEN u - Pow2(8 * SizeOf[t])
               ELSE u

\* ------------------------------------------------- T's native capabilities

Less == "Less"
Equal == "Equal"
Greater == "Greater"

RECURSIVE SeqCmp(_, _)
\* Lexicographic order of two sequences of numbers (Ord for str, Vec<u64>).
SeqCmp(a, b) ==
  IF a = <<>> THEN (IF b = <<>> THEN Equal ELSE Less)
  ELSE IF b = <<>> THEN Greater
  ELSE IF a[1] < b[1] THEN Less
  ELSE IF a[1] > b[1] THEN Greater
  ELSE SeqCmp(Tail(a), Tail(b))

IntCmp(a, b) == IF a < b THEN Less ELSE IF a > b THEN Greater ELSE Equal

\* T's own PartialEq, Ord and Hash.  A Hasher is the sequence of bytes
\* written to it so far.
NativeEq(t, a, b) == a = b

NativeCmp(t, a, b) ==
  CASE t = "unit" -> Equal
    [] t = "bool" -> IntCmp(IF a THEN 1 ELSE 0, IF b THEN 1 ELSE 0)
    [] t = "String" -> SeqCmp(a, b)
    [] OTHER -> IntCmp(a, b)

NativeHash(t, x, state) ==
  CASE t = "String" -> state \o x \o <<255>>
    [] OTHER -> state \o ToBytes(t, x)

\* ------------------------------------------------------------ Arc blocks

\* An Arc<T> allocation: the strong count, the payload, how often the
\* payload's destructor has run, and whether the payload was moved out by
\* try_unwrap.  The block carries no type.
NoBlock == [alloc |-> FALSE, strong |-> 0, payload |-> <<>>, drops |-> 0, moved |-> FALSE]

\* The address Arc::into_raw gives for block a, and the block at an address.
AddrOf(a) == 4096 + 16 * a
BlockAt(addr) == (addr - 4096) \div 16

FreeBlocks(hp) == {a \in Blocks : ~hp[a].alloc}

\* Arc::new(x): a fresh block with strong count 1.
ArcNew(hp, x) ==
  LET a == CHOOSE b \in FreeBlocks(hp) : \A c \in FreeBlocks(hp) : b <= c
  IN  [blk |-> a,
       heap |-> [hp EXCEPT ![a] = [alloc |-> TRUE, strong |-> 1, payload |-> x,
                                   drops |-> 0, moved |-> FALSE]]]

\* ------------------------------------------------- erasure and de-erasure

\* A DDVal: the word v, as WordSize bytes in memory order.
ZeroWord == [i \in 1..WordSize |-> 0]

\* Whether into_ddval can run: the heap branch allocates.
CanErase(t, hp) == SizeOf[t] <= WordSize \/ FreeBlocks(hp) # {}

\* into_ddval with the size test written as `<`: a word-sized value is boxed.
into_ddval_lt(t, x, hp) ==
  IF SizeOf[t] < WordSize
    THEN [v |-> [i \in 1..WordSize |->
                   IF i <= SizeOf[t] THEN ToBytes(t, x)[i] ELSE 0],
          heap |-> hp]
    ELSE LET n == ArcNew(hp, x)
         IN  [v |-> LEBytes(AddrOf(n.blk), WordSize), heap |-> n.heap]

\* into_ddval(self): the cell and the heap after the call.
into_ddval(t, x, hp) ==
  IF SizeOf[t] <= WordSize
    THEN [v |-> [i \in 1..WordSize |->
                   IF i <= SizeOf[t] THEN ToBytes(t, x)[i] ELSE ZeroWord[i]],
          heap |-> hp]
    ELSE LET n == ArcNew(hp, x)
         IN  [v |-> LEBytes(AddrOf(n.blk), WordSize), heap |-> n.heap]

\* The block a heap-branch cell points to.
BlockOf(v) == BlockAt(LEValue(v))

\* from_ddval_ref(v): the value a cell of type t refers to.
from_ddval_ref(t, v, hp) ==
  IF SizeOf[t] <= WordSize
    THEN FromBytes(t, SubSeq(v, 1, SizeOf[t]))
    ELSE hp[BlockOf(v)].payload

\* from_ddval taking the payload out of the block whatever its count.
from_ddval_take(t, v, hp) ==
  IF SizeOf[t] <= WordSize
    THEN [val |-> FromBytes(t, SubSeq(v, 1, SizeOf[t])), heap |-> hp, shared |-> FALSE]
    ELSE LET a == BlockOf(v)
         IN  [val |-> hp[a].payload,
              heap |-> [hp EXCEPT ![a].strong = @ - 1, ![a].moved = TRUE,
                               ![a].payload = <<>>],
              shared |-> FALSE]

\* from_ddval(v): the owned value, the heap after the call, and whether the
\* Arc was still shared when try_unwrap ran (and the caller goes on to clone).
from_ddval(t, v, hp) ==
  IF SizeOf[t] <= WordSize
    THEN [val |-> FromBytes(t, SubSeq(v, 1, SizeOf[t])), heap |-> hp, shared |-> FALSE]
    ELSE LET a == BlockOf(v)
         IN  IF hp[a].strong = 1
               THEN [val |-> hp[a].payload,
                     heap |-> [hp EXCEPT ![a].strong = 0, ![a].moved = TRUE,
                                      ![a].payload = <<>>],
                     shared |-> FALSE]
               ELSE [val |-> hp[a].payload, heap |-> hp, shared |-> TRUE]

\* ------------------------------------------------ generic-record mutation

\* A generic record: Record::Int, Record::Bool, Record::String or an empty
\* Record::Tuple.
RecordOf(t, x) ==
  CASE t = "unit" -> [kind |-> "Tuple", x |-> <<>>]
    [] t = "bool" -> [kind |-> "Bool", x |-> x]
    [] t = "String" -> [kind |-> "String", x |-> x]
    [] OTHER -> [kind |-> "Int", x |-> x]

\* Whether a record is representable as a value of type t.
Representable(t, rec) ==
  CASE t = "unit" -> rec.kind = "Tuple"
    [] t = "bool" -> rec.kind = "Bool"
    [] t = "String" -> rec.kind = "String"
    [] OTHER ->
         /\ rec.kind = "Int"
         /\ IF t \in Signed
              THEN -Pow2(8 * SizeOf[t] - 1) <= rec.x /\ rec.x < Pow2(8 * SizeOf[t] - 1)
              ELSE 0 <= rec.x /\ (SizeOf[t] >= 4 \/ rec.x < Pow2(8 * SizeOf[t]))

\* Result<(), String>.
OkUnit == [ok |-> TRUE, val |-> "()"]
Err(msg) == [ok |-> FALSE, val |-> msg]

\* Mutator::mutate(record, &mut x) for a scalar T: whether it succeeded, x
\* after the call, and the error string.
MutatorMutate(t, rec, x) ==
  IF Representable(t, rec)
    THEN [ok |-> TRUE, val |-> rec.x, err |-> ""]
    ELSE [ok |-> FALSE, val |-> x, err |-> "cannot convert record"]

\* ------------------------------------------------- dispatch table (VTABLE)

\* VTABLE.clone without the second into_raw: the temporary Arc is dropped at
\* the end of the function, and the count is back where it was.
vtable_clone_noraw(t, v, hp) ==
  IF SizeOf[t] <= WordSize
    THEN into_ddval(t, from_ddval_ref(t, v, hp), hp)
    ELSE [v |-> v, heap |-> hp]

\* VTABLE.clone(this): the new cell and the heap after the call.
vtable_clone(t, v, hp) ==
  IF SizeOf[t] <= WordSize
    THEN into_ddval(t, from_ddval_ref(t, v, hp), hp)
    ELSE [v |-> LEBytes(AddrOf(BlockOf(v)), WordSize),
          heap |-> [hp EXCEPT ![BlockOf(v)].strong = @ + 1]]

\* VTABLE.drop(this), up to and including the Arc's fetch_sub: the heap after
\* it and whether this was the last reference (drop_slow follows).
vtable_drop(t, v, hp) ==
  IF SizeOf[t] <= WordSize
    THEN [heap |-> hp, last |-> FALSE]
    ELSE [heap |-> [hp EXCEPT ![BlockOf(v)].strong = @ - 1],
          last |-> hp[BlockOf(v)].strong = 1]

\* Arc::drop_slow: the payload's destructor runs.
drop_slow(a, hp) == [hp EXCEPT ![a].drops = @ + 1, ![a].payload = <<>>]

\* VTABLE.eq comparing the two cells' words instead of the values.
vtable_eq_words(t, v1, v2, hp) == v1 = v2

\* VTABLE.eq, partial_cmp, cmp and hash.
vtable_eq(t, v1, v2, hp) ==
  NativeEq(t, from_ddval_ref(t, v1, hp), from_ddval_ref(t, v2, hp))

vtable_cmp(t, v1, v2, hp) ==
  NativeCmp(t, from_ddval_ref(t, v1, hp), from_ddval_ref(t, v2, hp))

vtable_partial_cmp(t, v1, v2, hp) ==
  <<"Some", NativeCmp(t, from_ddval_ref(t, v1, hp), from_ddval_ref(t, v2, hp))>>

vtable_hash(t, v, state, hp) == NativeHash(t, from_ddval_ref(t, v, hp), state)

\* VTABLE.mutate writing the updated value through the cell's pointer.
vtable_mutate_inplace(t, v, rec, hp) ==
  LET m == MutatorMutate(t, rec, from_ddval_ref(t, v, hp))
  IN  IF ~m.ok THEN [res |-> Err(m.err), v |-> v, heap |-> hp]
      ELSE IF SizeOf[t] <= WordSize
        THEN [res |-> OkUnit,
              v |-> into_ddval(t, m.val, hp).v, heap |-> hp]
        ELSE [res |-> OkUnit, v |-> v,
              heap |-> [hp EXCEPT ![BlockOf(v)].payload = m.val]]

\* VTABLE.mutate installing the clone before it looks at the result of
\* Mutator::mutate.
vtable_mutate_install(t, v, rec, hp) ==
  LET m == MutatorMutate(t, rec, from_ddval_ref(t, v, hp))
      r == IF CanErase(t, hp) THEN into_ddval(t, m.val, hp) ELSE [v |-> v, heap |-> hp]
  IN  [res |-> IF m.ok THEN OkUnit ELSE Err(m.err), v |-> r.v, heap |-> r.heap]

\* VTABLE.mutate(this, record): the result, the cell's word and the heap
\* after the call.  `*this = ...` overwrites the word; a DDVal has no
\* destructor, so nothing is released.
vtable_mutate(t, v, rec, hp) ==
  LET m == MutatorMutate(t, rec, from_ddval_ref(t, v, hp))
  IN  IF ~m.ok THEN [res |-> Err(m.err), v |-> v, heap |-> hp]
      ELSE LET r == into_ddval(t, m.val, hp)
           IN  [res |-> OkUnit, v |-> r.v, heap |-> r.heap]

\* ------------------------------------------------------------- the state

\* A DDValue: the cell and its dispatch table (one per type).  A handle may be
\* sent to, and used by, any thread.
NoCell == [vtable |-> "none", val |-> <<>>]

Live(h) == cells[h].vtable # "none"
FreeHandles == {h \in Handles : ~Live(h)}
NewHandle == CHOOSE h \in FreeHandles : \A g \in FreeHandles : h <= g

\* Where a thread can be when it is in the middle of an operation: between an
\* Arc's fetch_sub and its drop_slow, or between a failed try_unwrap and the
\* closure of unwrap_or_else.  The threads run the same code and differ in
\* nothing else, so pc counts the threads at each position.
Positions == {"drop_slow", "unwrap_or_else"} \X Blocks

RECURSIVE Busy(_, _)
\* The number of threads in the middle of an operation, counted over S.
Busy(p, S) ==
  IF S = {} THEN 0
  ELSE LET x == CHOOSE y \in S : TRUE IN p[x] + Busy(p, S \ {x})

\* Some thread is free to start an operation.
SomeIdle == Busy(pc, Positions) < NThreads

Ret(op, a, val) == [op |-> op, a |-> a, val |-> val]

NoClosure == [description |-> "none", captured |-> <<>>, f |-> 0]

NoInput == [t |-> "none"]

\* The value a handle shows to a reader.
Observe(h) == from_ddval_ref(cells[h].vtable, cells[h].val, heap)

\* Heap-branch handles and the block each refers to.
IsHeap(h) == Live(h) /\ SizeOf[cells[h].vtable] > WordSize
Referring(a) == {h \in Handles : IsHeap(h) /\ BlockOf(cells[h].val) = a}

InitMachine ==
  /\ heap = [a \in Blocks |-> NoBlock]
  /\ cells = [h \in Handles |-> NoCell]
  /\ pc = [p \in Positions |-> 0]
  /\ clo = [s \in CloSlots |-> NoClosure]
  /\ ret = Ret("init", 0, 0)

Init == InitMachine /\ inp = NoInput

\* ------------------------------------------------------------ operations

\* value.into_ddvalue()
IntoDdvalue(t, x) ==
  /\ SomeIdle
  /\ FreeHandles # {}
  /\ CanErase(t, heap)
  /\ LET r == into_ddval(t, x, heap)
     IN  /\ heap' = r.heap
         /\ cells' = [cells EXCEPT ![NewHandle] = [vtable |-> t, val |-> r.v]]
  /\ ret' = Ret("into_ddvalue", 0, 0)
  /\ UNCHANGED <<pc, clo, inp>>

\* DDValue::clone, through VTABLE.clone.
Clone(h) ==
  /\ SomeIdle
  /\ Live(h)
  /\ FreeHandles # {}
  /\ LET r == vtable_clone(cells[h].vtable, cells[h].val, heap)
     IN  /\ heap' = r.heap
         /\ cells' = [cells EXCEPT ![NewHandle] =
                        [vtable |-> cells[h].vtable, val |-> r.v]]
  /\ ret' = Ret("clone", 0, 0)
  /\ UNCHANGED <<pc, clo, inp>>

\* DDValue::drop, through VTABLE.drop.
Drop(h) ==
  /\ SomeIdle
  /\ Live(h)
  /\ LET r == vtable_drop(cells[h].vtable, cells[h].val, heap)
         p == <<"drop_slow", BlockOf(cells[h].val)>>
     IN  /\ heap' = r.heap
         /\ pc' = IF r.last THEN [pc EXCEPT ![p] = @ + 1] ELSE pc
  /\ cells' = [cells EXCEPT ![h] = NoCell]
  /\ ret' = Ret("drop", 0, 0)
  /\ UNCHANGED <<clo, inp>>

\* The second half of an Arc's drop, on the thread whose fetch_sub saw 1.
DropSlow(a) ==
  /\ pc[<<"drop_slow", a>>] > 0
  /\ heap' = drop_slow(a, heap)
  /\ pc' = [pc EXCEPT ![<<"drop_slow", a>>] = @ - 1]
  /\ ret' = Ret("drop_slow", 0, 0)
  /\ UNCHANGED <<cells, clo, inp>>

\* T::from_ddvalue(v): the handle is taken apart without running its drop.
FromDdvalue(h) ==
  /\ SomeIdle
  /\ Live(h)
  /\ LET r == from_ddval(cells[h].vtable, cells[h].val, heap)
         p == <<"unwrap_or_else", BlockOf(cells[h].val)>>
     IN  /\ heap' = r.heap
         /\ IF r.shared
              THEN /\ pc' = [pc EXCEPT ![p] = @ + 1]
                   /\ ret' = Ret("try_unwrap", 0, 0)
              ELSE /\ pc' = pc
                   /\ ret' = Ret("from_ddvalue", 0, r.val)
  /\ cells' = [cells EXCEPT ![h] = NoCell]
  /\ UNCHANGED <<clo, inp>>

\* unwrap_or_else(|a| (*a).clone()): the payload is copied and the Arc dropped.
UnwrapOrElse(a) ==
  /\ pc[<<"unwrap_or_else", a>>] > 0
  /\ heap' = [heap EXCEPT ![a].strong = @ - 1]
  /\ pc' = [pc EXCEPT ![<<"unwrap_or_else", a>>] = @ - 1,
                      ![<<"drop_slow", a>>] = IF heap[a].strong = 1 THEN @ + 1 ELSE @]
  /\ ret' = Ret("from_ddvalue", 0, heap[a].payload)
  /\ UNCHANGED <<cells, clo, inp>>

\* VTABLE.mutate through a handle.
Mutate(h, rec) ==
  /\ SomeIdle
  /\ Live(h)
  /\ \/ ~Representable(cells[h].vtable, rec)
     \/ CanErase(cells[h].vtable, heap)
  /\ LET r == vtable_mutate(cells[h].vtable, cells[h].val, rec, heap)
     IN  /\ heap' = r.heap
         /\ cells' = [cells EXCEPT ![h].val = r.v]
         /\ ret' = Ret("mutate", 0, r.res)
  /\ UNCHANGED <<pc, clo, inp>>

\* The types, values and records the machine's operations draw from.
MachineTypes == {"i8", "String"}
MachineValues == [i8 |-> {-1}, String |-> {<<97>>}]
MachineRecords == <<RecordOf("i8", 1), RecordOf("String", <<98>>)>>
RefCountValues == [i8 |-> {-1}, String |-> {<<97>>, <<98>>}]

\* Clone and drop, with the second half of a drop.
RefCountOps ==
  \/ \E h \in Handles : Clone(h)
  \/ \E h \in Handles : Drop(h)
  \/ \E a \in Blocks : DropSlow(a)

Next ==
  \/ \E t \in MachineTypes : \E x \in MachineValues[t] : IntoDdvalue(t, x)
  \/ RefCountOps
  \/ \E h \in Handles : FromDdvalue(h)
  \/ \E a \in Blocks : UnwrapOrElse(a)
  \/ \E h \in Handles, i \in DOMAIN MachineRecords : Mutate(h, MachineRecords[i])

Spec == Init /\ [][Next]_vars

\* Clone and drop alone, by several threads, on erased values.
NextRC ==
  \/ \E t \in MachineTypes : \E x \in RefCountValues[t] : IntoDdvalue(t, x)
  \/ RefCountOps

SpecRC == Init /\ [][NextRC]_vars

\* Erase, clone, mutate and drop, by several threads.
NextMut ==
  \/ \E t \in MachineTypes : \E x \in MachineValues[t] : IntoDdvalue(t, x)
  \/ RefCountOps
  \/ \E h \in Handles, i \in DOMAIN MachineRecords : Mutate(h, MachineRecords[i])

SpecMut == Init /\ [][NextMut]_vars

\* Erase, clone, drop and consume of heap-branch values, by several threads.
NextConsume ==
  \/ \E x \in RefCountValues.String : IntoDdvalue("String", x)
  \/ RefCountOps
  \/ \E h \in Handles : FromDdvalue(h)
  \/ \E a \in Blocks : UnwrapOrElse(a)

SpecConsume == Init /\ [][NextConsume]_vars

\* ------------------------------------------- reads through the dispatch table

\* DDValue's PartialEq, Ord, PartialOrd and Hash, through the table of the
\* left operand; both operands are of its type.
Eq(h1, h2) ==
  /\ Live(h1) /\ Live(h2) /\ cells[h1].vtable = cells[h2].vtable
  /\ ret' = Ret("eq", 0, vtable_eq(cells[h1].vtable, cells[h1].val, cells[h2].val, heap))
  /\ UNCHANGED <<heap, cells, pc, clo, inp>>

Cmp(h1, h2) ==
  /\ Live(h1) /\ Live(h2) /\ cells[h1].vtable = cells[h2].vtable
  /\ ret' = Ret("cmp", 0, vtable_cmp(cells[h1].vtable, cells[h1].val, cells[h2].val, heap))
  /\ UNCHANGED <<heap, cells, pc, clo, inp>>

PartialCmp(h1, h2) ==
  /\ Live(h1) /\ Live(h2) /\ cells[h1].vtable = cells[h2].vtable
  /\ ret' = Ret("partial_cmp", 0,
                vtable_partial_cmp(cells[h1].vtable, cells[h1].val, cells[h2].val, heap))
  /\ UNCHANGED <<heap, cells, pc, clo, inp>>

HashOf(h, state) ==
  /\ Live(h)
  /\ ret' = Ret("hash", 0, vtable_hash(cells[h].vtable, cells[h].val, state, heap))
  /\ UNCHANGED <<heap, cells, pc, clo, inp>>

\* --------------------------------- erase, read and consume on given inputs

\* The states of a Hasher the inputs are drawn from.
HasherStates == {<<>>, <<7>>}

\* A type, two values of it and a hasher state; the first value is erased
\* into handle 1 and the second into handle 2.
InitConv ==
  /\ InitMachine
  /\ \E t \in Types : \E v1 \in Values[t], v2 \in Values[t], st \in HasherStates :
       inp = [t |-> t, v1 |-> v1, v2 |-> v2, st |-> st]

NextConv ==
  \/ ~Live(1) /\ ~Live(2) /\ IntoDdvalue(inp.t, inp.v1)
  \/ Live(1) /\ ~Live(2) /\ IntoDdvalue(inp.t, inp.v2)
  \/ Live(2) /\ Eq(1, 2)
  \/ Live(2) /\ Cmp(1, 2)
  \/ Live(2) /\ PartialCmp(1, 2)
  \/ Live(2) /\ HashOf(1, inp.st)
  \/ FromDdvalue(1)

SpecConv == InitConv /\ [][NextConv]_vars

\* ---------------------------------------------------------------- closures

\* The functions a ClosureImpl's f can point to: the two of closure_test, one
\* more over the same captured type as the first, and the __f of Default.
\* Each has an address and the type of the captured value it takes.  All
\* share one (Args, Output) signature; Output is a Vec.
FnTable ==
  [f_vec |-> [addr |-> 8192, captured |-> "Vec"],
   f_len |-> [addr |-> 8256, captured |-> "Vec"],
   f_str |-> [addr |-> 8320, captured |-> "String"],
   f_default |-> [addr |-> 8384, captured |-> "unit"]]

FnAt(addr) == CHOOSE n \in DOMAIN FnTable : FnTable[n].addr = addr

\* Output::default()
OutputDefault == <<>>

\* The body of each function, on its arguments and the captured value.
Apply(fn, args, captured) ==
  CASE fn = "f_vec" -> [i \in 1..Len(captured) |-> <<captured[i], args>>]
    [] fn = "f_len" -> <<Len(captured), args>>
    [] fn = "f_str" -> << <<captured, args>> >>
    [] fn = "f_default" -> OutputDefault

\* Argument tuples and captured values the closures are built and called with.
\* A Vec<u64> is its sequence of elements, a String its sequence of bytes, the
\* unit value is <<>>.
CloArgs == {<<98, 100>>, <<99, 7>>}
CapturedValues == [Vec |-> {<<0>>, <<0, 1>>}, String |-> {<<0>>, <<66>>}, unit |-> {<<>>}]
UserFns == {"f_vec", "f_len", "f_str"}
Descriptions == {"d1", "d2"}

\* Ord and Hash of a captured value.
CapturedCmp(a, b) == SeqCmp(a, b)

RECURSIVE HashU64s(_)
HashU64s(xs) == IF xs = <<>> THEN <<>> ELSE LEBytes(xs[1], 8) \o HashU64s(Tail(xs))

CapturedHash(ctype, c, state) ==
  CASE ctype = "Vec" -> state \o LEBytes(Len(c), WordSize) \o HashU64s(c)
    [] ctype = "String" -> state \o c \o <<255>>
    [] ctype = "unit" -> state

\* {:?} of a captured value.
CapturedDebug(ctype, c) == <<ctype, c>>

\* A Box<dyn Closure>: the ClosureImpl in the box at a slot.
ClosureImpl(description, captured, f) ==
  [description |-> description, captured |-> captured, f |-> f]

CloLive(s) == clo[s].f # 0

\* The address of the captured field of the box at slot s, and the slot of
\* the box a captured field's address lies in.
CapturedAddr(s) == 16384 + 64 * s
SlotAt(addr) == (addr - 16384) \div 64

\* ClosureImpl::internals
internals(st, s) == <<st[s].f, CapturedAddr(s)>>

\* ClosureImpl::call passing a default captured value instead of its own.
call_default_captured(st, s, args) == Apply(FnAt(st[s].f), args, <<>>)

\* ClosureImpl::call
call(st, s, args) == Apply(FnAt(st[s].f), args, st[s].captured)

\* ClosureImpl::clone_dyn rebuilding the closure with a default captured value.
clone_dyn_default(st, s) == ClosureImpl(st[s].description, <<>>, st[s].f)

\* ClosureImpl::clone_dyn: the derived Clone, boxed.
clone_dyn(st, s) == ClosureImpl(st[s].description, st[s].captured, st[s].f)

\* ClosureImpl::eq_dyn comparing the captured values whatever the functions.
eq_dyn_captured_only(st, s, other) ==
  st[SlotAt(internals(st, other)[2])].captured = st[s].captured

\* ClosureImpl::eq_dyn: the other closure's captured value is read through the
\* address internals gives, and only when the functions are the same.
eq_dyn(st, s, other) ==
  LET o == internals(st, other)
  IN  IF o[1] = st[s].f
        THEN st[SlotAt(o[2])].captured = st[s].captured
        ELSE FALSE

\* ClosureImpl::cmp_dyn ordering by the captured values first.
cmp_dyn_captured_first(st, s, other) ==
  LET o == internals(st, other)
      c == CapturedCmp(st[s].captured, st[SlotAt(o[2])].captured)
  IN  IF c = Equal THEN IntCmp(st[s].f, o[1]) ELSE c

\* ClosureImpl::cmp_dyn
cmp_dyn(st, s, other) ==
  LET o == internals(st, other)
  IN  IF IntCmp(st[s].f, o[1]) = Equal
        THEN CapturedCmp(st[s].captured, st[SlotAt(o[2])].captured)
        ELSE IntCmp(st[s].f, o[1])

\* ClosureImpl::hash_dyn: the captured value, then the function's address.
hash_dyn(st, s, state) ==
  CapturedHash(FnTable[FnAt(st[s].f)].captured, st[s].captured, state)
    \o LEBytes(st[s].f, WordSize)

\* into_record_dyn, fmt_debug_dyn, fmt_display_dyn and Serialize::serialize
\* all render the same text.
closure_text(st, s) ==
  <<"<closure: ", st[s].description, ", captured_args: ",
    CapturedDebug(FnTable[FnAt(st[s].f)].captured, st[s].captured), ">">>

\* Default::default giving a closure over another function.
closure_default_other == ClosureImpl("default closure", <<>>, FnTable.f_str.addr)

\* <Box<dyn Closure> as Default>::default
closure_default == ClosureImpl("default closure", <<>>, FnTable.f_default.addr)

\* Deserialize giving the default closure.
closure_deserialize_default(input) ==
  [ok |-> TRUE, val |-> "()", made |-> closure_default]

\* <Box<dyn Closure> as Deserialize>::deserialize, FromRecord::from_record
\* and Mutator::mutate: the result, and the closure made or left.
closure_deserialize(input) ==
  [ok |-> FALSE, val |-> "Deserialization of closures is not implemented.",
   made |-> NoClosure]

closure_from_record(rec) ==
  [ok |-> FALSE, val |-> "'from_record' not implemented for closures.",
   made |-> NoClosure]

closure_mutate(rec, x) ==
  [ok |-> FALSE, val |-> "'mutate' not implemented for closures.", made |-> x]

\* What a call gives its caller: a value it returns, or a panic with its
\* message.
Returns(x) == [panic |-> FALSE, val |-> x]
Panics(msg) == [panic |-> TRUE, val |-> msg]

\* Abomonation::extent giving the size of the box, a pointer and a table.
extent_fat_pointer(st, s) == Returns(2 * WordSize)

\* <Box<dyn Closure> as Abomonation>::entomb, exhume and extent
entomb(st, s, write) == Panics("Closure::entomb: not implemented")
exhume(st, s, bytes) == Panics("Closure::exhume: not implemented")
extent(st, s) == Panics("Closure::extent: not implemented")

\* Slots 1 and 2 hold the two closures built from the inputs; clones and
\* default closures go to the slots after them.
FreeCloSlots == {s \in CloSlots : s > 2 /\ ~CloLive(s)}
NewCloSlot == CHOOSE s \in FreeCloSlots : \A r \in FreeCloSlots : s <= r

\* Nothing runs after a panic.
Running == ret.op # "panic"

\* ClosureImpl { description, captured, f } from the first and from the
\* second input.
CloNewA ==
  /\ Running /\ ~CloLive(1)
  /\ clo' = [clo EXCEPT ![1] = ClosureImpl(inp.da, inp.ca, FnTable[inp.fa].addr)]
  /\ ret' = Ret("clo_new", 0, 0)
  /\ UNCHANGED <<heap, cells, pc, inp>>

CloNewB ==
  /\ Running /\ ~CloLive(2)
  /\ clo' = [clo EXCEPT ![2] = ClosureImpl(inp.db, inp.cb, FnTable[inp.fb].addr)]
  /\ ret' = Ret("clo_new", 0, 0)
  /\ UNCHANGED <<heap, cells, pc, inp>>

CloDefault ==
  /\ Running /\ FreeCloSlots # {}
  /\ clo' = [clo EXCEPT ![NewCloSlot] = closure_default]
  /\ ret' = Ret("clo_default", 0, 0)
  /\ UNCHANGED <<heap, cells, pc, inp>>

CloClone(s) ==
  /\ Running /\ CloLive(s) /\ FreeCloSlots # {}
  /\ clo' = [clo EXCEPT ![NewCloSlot] = clone_dyn(clo, s)]
  /\ ret' = Ret("clo_clone", 0, 0)
  /\ UNCHANGED <<heap, cells, pc, inp>>

CloCall(s, args) ==
  /\ Running /\ CloLive(s)
  /\ ret' = Ret("call", <<s, args>>, call(clo, s, args))
  /\ UNCHANGED <<heap, cells, pc, clo, inp>>

CloEq(s, other) ==
  /\ Running /\ CloLive(s) /\ CloLive(other)
  /\ ret' = Ret("clo_eq", 0, eq_dyn(clo, s, other))
  /\ UNCHANGED <<heap, cells, pc, clo, inp>>

CloCmp(s, other) ==
  /\ Running /\ CloLive(s) /\ CloLive(other)
  /\ ret' = Ret("clo_cmp", 0, cmp_dyn(clo, s, other))
  /\ UNCHANGED <<heap, cells, pc, clo, inp>>

CloPartialCmp(s, other) ==
  /\ Running /\ CloLive(s) /\ CloLive(other)
  /\ ret' = Ret("clo_partial_cmp", 0, <<"Some", cmp_dyn(clo, s, other)>>)
  /\ UNCHANGED <<heap, cells, pc, clo, inp>>

CloHash(s, state) ==
  /\ Running /\ CloLive(s)
  /\ ret' = Ret("clo_hash", 0, hash_dyn(clo, s, state))
  /\ UNCHANGED <<heap, cells, pc, clo, inp>>

\* Debug, Display and Serialize, by reference.
CloFormat(s) ==
  /\ Running /\ CloLive(s)
  /\ ret' = Ret("clo_format", 0, closure_text(clo, s))
  /\ UNCHANGED <<heap, cells, pc, clo, inp>>

\* IntoRecord::into_record(self): the box is consumed.
CloIntoRecord(s) ==
  /\ Running /\ CloLive(s)
  /\ ret' = Ret("clo_into_record", 0, closure_text(clo, s))
  /\ clo' = [clo EXCEPT ![s] = NoClosure]
  /\ UNCHANGED <<heap, cells, pc, inp>>

\* What deserialize and from_record are given.
CloDeserializerInputs == {"null", "<closure: d1, captured_args: [0]>"}
CloRecords == <<RecordOf("String", <<66>>), RecordOf("u64", 0)>>

\* A value that deserialize or from_record returns is held in a new box.
CloDeserialize(input) ==
  /\ Running
  /\ LET r == closure_deserialize(input)
     IN  /\ ret' = Ret("clo_deserialize", 0, [ok |-> r.ok, val |-> r.val])
         /\ clo' = IF r.ok /\ FreeCloSlots # {}
                     THEN [clo EXCEPT ![NewCloSlot] = r.made]
                     ELSE clo
  /\ UNCHANGED <<heap, cells, pc, inp>>

CloFromRecord(rec) ==
  /\ Running
  /\ LET r == closure_from_record(rec)
     IN  /\ ret' = Ret("clo_from_record", 0, [ok |-> r.ok, val |-> r.val])
         /\ clo' = IF r.ok /\ FreeCloSlots # {}
                     THEN [clo EXCEPT ![NewCloSlot] = r.made]
                     ELSE clo
  /\ UNCHANGED <<heap, cells, pc, inp>>

CloMutate(rec, s) ==
  /\ Running /\ CloLive(s)
  /\ LET r == closure_mutate(rec, clo[s])
     IN  /\ ret' = Ret("clo_mutate", 0, [ok |-> r.ok, val |-> r.val])
         /\ clo' = [clo EXCEPT ![s] = r.made]
  /\ UNCHANGED <<heap, cells, pc, inp>>

\* A snapshot call on a live closure: what it returns, or the panic, which
\* unwinds the thread and drops every box it owns.
Snapshot(op, r) ==
  /\ ret' = IF r.panic THEN Ret("panic", 0, r.val) ELSE Ret(op, 0, r.val)
  /\ clo' = IF r.panic THEN [x \in CloSlots |-> NoClosure] ELSE clo
  /\ UNCHANGED <<heap, cells, pc, inp>>

SnapshotBytes == {<<>>, <<1, 0>>}

CloEntomb(s, write) ==
  /\ Running /\ CloLive(s)
  /\ Snapshot("clo_entomb", entomb(clo, s, write))

CloExhume(s, bytes) ==
  /\ Running /\ CloLive(s)
  /\ Snapshot("clo_exhume", exhume(clo, s, bytes))

CloExtent(s) ==
  /\ Running /\ CloLive(s)
  /\ Snapshot("clo_extent", extent(clo, s))

\* Two closures to build: a function, a value of its captured type and a
\* description for each.
InitClosure ==
  /\ InitMachine
  /\ \E fa \in UserFns, fb \in UserFns, db \in Descriptions :
       \E ca \in CapturedValues[FnTable[fa].captured],
          cb \in CapturedValues[FnTable[fb].captured] :
         inp = [fa |-> fa, ca |-> ca, da |-> "d1", fb |-> fb, cb |-> cb, db |-> db]

NextClosure ==
  \/ CloNewA
  \/ CloNewB
  \/ CloDefault
  \/ \E s \in CloSlots : CloClone(s)
  \/ \E s \in CloSlots, args \in CloArgs : CloCall(s, args)
  \/ \E s \in CloSlots, other \in CloSlots : CloEq(s, other)
  \/ \E s \in CloSlots, other \in CloSlots : CloCmp(s, other)
  \/ \E s \in CloSlots, other \in CloSlots : CloPartialCmp(s, other)
  \/ \E s \in CloSlots, state \in HasherStates : CloHash(s, state)
  \/ \E s \in CloSlots : CloFormat(s)
  \/ \E s \in CloSlots : CloIntoRecord(s)
  \/ \E input \in CloDeserializerInputs : CloDeserialize(input)
  \/ \E i \in DOMAIN CloRecords : CloFromRecord(CloRecords[i])
  \/ \E i \in DOMAIN CloRecords, s \in CloSlots : CloMutate(CloRecords[i], s)
  \/ \E s \in CloSlots, write \in SnapshotBytes : CloEntomb(s, write)
  \/ \E s \in CloSlots, bytes \in SnapshotBytes : CloExhume(s, bytes)
  \/ \E s \in CloSlots : CloExtent(s)

SpecClosure == InitClosure /\ [][NextClosure]_vars

\* ------------------------------------------------------------------ claims

\* C1: reference-count discipline of the heap branch under clone and drop by
\* several threads.  In every state the strong count of a block equals the
\* number of live cells that refer to it, the payload's destructor has run at
\* most once, and it has run (or the thread whose decrement reached zero is
\* about to run it) exactly when the count is zero, so never while a live cell
\* refers to the block.  Every clone of a heap cell raises the count by one
\* and destroys nothing, every drop of a heap cell lowers it by one, and the
\* destructor runs only on a block whose count is zero and that was not
\* destroyed before.
RefCountInv ==
  \A a \in Blocks :
    heap[a].alloc =>
      /\ heap[a].strong = Cardinality(Referring(a))
      /\ heap[a].drops + pc[<<"drop_slow", a>>] = (IF heap[a].strong = 0 THEN 1 ELSE 0)
      /\ (Referring(a) # {} => heap[a].drops = 0 /\ pc[<<"drop_slow", a>>] = 0)

RefCountStep ==
  /\ \A h \in Handles :
       Clone(h) /\ IsHeap(h) =>
         LET a == BlockOf(cells[h].val)
         IN  /\ heap'[a].strong = heap[a].strong + 1
             /\ \A b \in Blocks : heap'[b].drops = heap[b].drops
             /\ pc' = pc
             /\ \A b \in Blocks \ {a} : heap'[b] = heap[b]
  /\ \A h \in Handles :
       Drop(h) /\ IsHeap(h) =>
         LET a == BlockOf(cells[h].val)
         IN  /\ heap'[a].strong = heap[a].strong - 1
             /\ \A b \in Blocks : heap'[b].drops = heap[b].drops
             /\ \A b \in Blocks \ {a} : heap'[b] = heap[b]
  /\ \A a \in Blocks :
       DropSlow(a) =>
         /\ heap[a].strong = 0 /\ heap[a].drops = 0 /\ Referring(a) = {}
         /\ heap'[a].drops = 1

C1_RefCountDiscipline == []RefCountInv /\ [][RefCountStep]_vars

\* C1 witness: a block has been destroyed by the second half of a drop while
\* another block is shared by a cell and its clone.
C1_Witness ==
  /\ ret.op = "drop_slow"
  /\ \E a \in Blocks : heap[a].drops = 1 /\ heap[a].strong = 0
  /\ \E b \in Blocks : heap[b].strong = 2 /\ Cardinality(Referring(b)) = 2

\* C2: mutation isolation.  A mutate on handle h1, whether it succeeds or
\* fails, leaves every other live handle live and showing the value it
\* showed before, and changes the payload of no allocated block.
C2_MutationIsolation ==
  [][\A h1 \in Handles, i \in DOMAIN MachineRecords :
       ret'.op = "mutate" /\ Mutate(h1, MachineRecords[i]) =>
         /\ \A h2 \in Handles \ {h1} :
              Live(h2) => cells'[h2] = cells[h2] /\ Observe(h2)' = Observe(h2)
         /\ \A a \in Blocks :
              heap[a].alloc => heap'[a].payload = heap[a].payload]_vars

\* C2 witness: a mutate has succeeded on a handle whose heap block was shared
\* with a clone; the clone still refers to the old block and shows the old
\* value, the mutated handle shows the new one.
C2_Witness ==
  /\ ret.op = "mutate" /\ ret.val.ok
  /\ Busy(pc, Positions) = 0
  /\ IsHeap(1) /\ IsHeap(2)
  /\ BlockOf(cells[1].val) # BlockOf(cells[2].val)
  /\ \E h \in {1, 2} : heap[BlockOf(cells[h].val)].strong = 2 /\ Observe(h) = <<97>>
  /\ \E h \in {1, 2} : Observe(h) = <<98>>

\* C3: round trip.  Consuming the handle a value was erased into gives the
\* value back, for the inline and for the heap branch.
C3_RoundTrip == ret.op = "from_ddvalue" => ret.val = inp.v1

\* C3 witness: a heap-branch value has been erased and consumed.
C3_Witness ==
  /\ ret.op = "from_ddvalue"
  /\ inp.t = "String" /\ inp.v1 = <<97, 98>>
  /\ \E a \in Blocks : heap[a].moved

\* C4: the dispatch table's eq, partial_cmp, cmp and hash on the erased cells
\* of v1 and v2 give what T's own equality, order and hash give on v1 and v2.
C4_DispatchNative ==
  /\ ret.op = "eq" => ret.val = NativeEq(inp.t, inp.v1, inp.v2)
  /\ ret.op = "cmp" => ret.val = NativeCmp(inp.t, inp.v1, inp.v2)
  /\ ret.op = "partial_cmp" => ret.val = <<"Some", NativeCmp(inp.t, inp.v1, inp.v2)>>
  /\ ret.op = "hash" => ret.val = NativeHash(inp.t, inp.v1, inp.st)

\* C4 witness: two equal heap-branch values, erased into two blocks, have
\* been compared through the table.
C4_Witness ==
  /\ ret.op = "eq" /\ ret.val = TRUE
  /\ inp.t = "String" /\ inp.v1 = <<97>> /\ inp.v2 = <<97>>
  /\ cells[1].val # cells[2].val

\* C5: closure equality law.  Two closures are equal exactly when their
\* function pointers are the same and their captured values are equal, and
\* then they hash alike from every hasher state and order as Equal; closures
\* over different functions are never equal, whatever they captured.  What
\* Box<dyn Closure>'s == returns is that.
LiveClosures == {s \in CloSlots : CloLive(s)}

SameClosure(a, b) == clo[a].f = clo[b].f /\ clo[a].captured = clo[b].captured

C5_Law ==
  \A a \in LiveClosures, b \in LiveClosures :
    /\ eq_dyn(clo, a, b) = SameClosure(a, b)
    /\ SameClosure(a, b) =>
         /\ cmp_dyn(clo, a, b) = Equal
         /\ \A state \in HasherStates : hash_dyn(clo, a, state) = hash_dyn(clo, b, state)
    /\ clo[a].f # clo[b].f => ~eq_dyn(clo, a, b)

C5_ClosureEquality ==
  /\ []C5_Law
  /\ [][\A a \in CloSlots, b \in CloSlots :
          ret'.op = "clo_eq" /\ CloEq(a, b) => ret'.val = SameClosure(a, b)]_vars

\* C5 witness: an == has returned false for two closures over different
\* functions that captured the same bytes, with an equal pair also present.
C5_Witness ==
  /\ ret.op = "clo_eq" /\ ret.val = FALSE
  /\ CloLive(1) /\ CloLive(2) /\ CloLive(3)
  /\ clo[1].f # clo[2].f /\ clo[1].captured = clo[2].captured
  /\ SameClosure(1, 3)

\* C6: closure ordering is lexicographic on (function pointer, captured
\* value); cmp(a, b) is the reverse of cmp(b, a), and is Equal exactly when a
\* equals b.
Reverse(ord) == IF ord = Less THEN Greater ELSE IF ord = Greater THEN Less ELSE Equal

C6_ClosureOrdering ==
  \A a \in LiveClosures, b \in LiveClosures :
    /\ clo[a].f # clo[b].f => cmp_dyn(clo, a, b) = IntCmp(clo[a].f, clo[b].f)
    /\ clo[a].f = clo[b].f =>
         cmp_dyn(clo, a, b) = CapturedCmp(clo[a].captured, clo[b].captured)
    /\ cmp_dyn(clo, a, b) = Reverse(cmp_dyn(clo, b, a))
    /\ (cmp_dyn(clo, a, b) = Equal) = eq_dyn(clo, a, b)

\* C6 witness: a cmp has run on two closures whose functions differ and whose
\* captured values order the other way round.
C6_Witness ==
  /\ ret.op = "clo_cmp"
  /\ CloLive(1) /\ CloLive(2)
  /\ clo[1].f < clo[2].f
  /\ CapturedCmp(clo[1].captured, clo[2].captured) = Greater

\* C7: a clone of a closure has the same function pointer, an equal captured
\* value and the same description, compares equal to the original, and the
\* original is as it was.
C7_CloneEqual ==
  [][\A s \in CloSlots :
       ret'.op = "clo_clone" /\ CloClone(s) =>
         LET k == NewCloSlot
         IN  /\ clo'[k].f = clo[s].f
             /\ clo'[k].captured = clo[s].captured
             /\ clo'[k].description = clo[s].description
             /\ eq_dyn(clo', s, k) /\ eq_dyn(clo', k, s)
             /\ clo'[s] = clo[s]]_vars

\* C7 witness: the second closure has been cloned.
C7_Witness ==
  /\ ret.op = "clo_clone"
  /\ CloLive(2) /\ CloLive(3)
  /\ clo[3] = clo[2] /\ clo[2].captured = <<0, 1>>

\* C8: a closure built from function f and captured value c keeps f and c
\* under every operation, and call(args) returns f(args, c).
C8_Built ==
  /\ CloLive(1) => clo[1] = ClosureImpl(inp.da, inp.ca, FnTable[inp.fa].addr)
  /\ CloLive(2) => clo[2] = ClosureImpl(inp.db, inp.cb, FnTable[inp.fb].addr)
  /\ ret.op = "call" /\ ret.a[1] = 1 => ret.val = Apply(inp.fa, ret.a[2], inp.ca)
  /\ ret.op = "call" /\ ret.a[1] = 2 => ret.val = Apply(inp.fb, ret.a[2], inp.cb)

C8_Unchanged == \A s \in CloSlots : CloLive(s) /\ CloLive(s)' => clo'[s] = clo[s]

C8_CallAndImmutability == []C8_Built /\ [][C8_Unchanged]_vars

\* C8 witness: the first closure, over the function that maps its captured
\* vector, has been called while a clone of it exists.
C8_Witness ==
  /\ ret.op = "call" /\ ret.a[1] = 1
  /\ inp.fa = "f_vec" /\ inp.ca = <<0, 1>>
  /\ ret.val = << <<0, ret.a[2]>>, <<1, ret.a[2]>> >>
  /\ CloLive(3) /\ clo[3] = clo[1]

\* C9: deserialize and from_record return an error for every input and make
\* no closure; generic-record mutate returns an error for every record and
\* leaves the closure as it was.
ErrOps == {"clo_deserialize", "clo_from_record", "clo_mutate"}

C9_NoExternalData ==
  /\ [](ret.op \in ErrOps => ~ret.val.ok)
  /\ [][ret'.op \in ErrOps => clo' = clo]_vars

\* C9 witness: a generic-record mutate on a built closure has returned.
C9_Witness == ret.op = "clo_mutate" /\ CloLive(1) /\ CloLive(2)

\* C10: Default::default gives a closure that captures the unit value and
\* whose call returns Output::default() for every argument.
C10_Default ==
  /\ [][ret'.op = "clo_default" /\ CloDefault =>
          /\ clo'[NewCloSlot].captured = <<>>
          /\ \A args \in CloArgs : call(clo', NewCloSlot, args) = OutputDefault]_vars
  /\ [](ret.op = "call" /\ clo[ret.a[1]].description = "default closure" =>
          ret.val = OutputDefault)

\* C10 witness: a default closure has been called.
C10_Witness ==
  /\ ret.op = "call" /\ ret.a[1] = 3
  /\ clo[3] = ClosureImpl("default closure", <<>>, FnTable.f_default.addr)
  /\ ret.val = <<>>

\* C11: entomb, exhume and extent on a closure never return, neither a value
\* nor an error: no state follows the return of one of them, and no operation
\* runs after the panic they end in.
SnapshotOps == {"clo_entomb", "clo_exhume", "clo_extent"}

C11_SnapshotAborts ==
  /\ [](ret.op \notin SnapshotOps)
  /\ [][ret.op # "panic"]_vars

\* C11 witness: exhume has been called on a closure built from the inputs.
C11_Witness ==
  /\ ret.op = "panic" /\ ret.val = "Closure::exhume: not implemented"
  /\ inp.fa = "f_vec"

\* C12: consuming a heap cell gives up that cell's one reference.  When the
\* count is one the block is reclaimed and its payload moved out to the
\* caller: no destructor runs and nothing is left in the block.  Otherwise
\* the thread goes on to copy the payload and release its reference: the
\* copy equals the payload, the count drops by one and the payload stays.
\* Either way every other live handle stays and shows what it showed, and
\* since the payload of a block never changes while its count is positive,
\* what is returned is what was erased.
Others(h) ==
  \A h2 \in Handles \ {h} :
    Live(h2) => cells'[h2] = cells[h2] /\ Observe(h2)' = Observe(h2)

ConsumeStep ==
  /\ \A h \in Handles :
       ret'.op \in {"from_ddvalue", "try_unwrap"} /\ IsHeap(h) /\ FromDdvalue(h) =>
         LET a == BlockOf(cells[h].val)
         IN  /\ ~Live(h)' /\ Others(h)
             /\ \A b \in Blocks \ {a} : heap'[b] = heap[b]
             /\ IF heap[a].strong = 1
                  THEN /\ ret'.op = "from_ddvalue" /\ ret'.val = Observe(h)
                       /\ heap'[a] = [heap[a] EXCEPT !.strong = 0, !.moved = TRUE,
                                                     !.payload = <<>>]
                       /\ pc' = pc
                  ELSE /\ ret'.op = "try_unwrap"
                       /\ heap'[a] = heap[a]
                       /\ pc'[<<"unwrap_or_else", a>>] = pc[<<"unwrap_or_else", a>>] + 1
  /\ \A a \in Blocks :
       ret'.op = "from_ddvalue" /\ UnwrapOrElse(a) =>
         /\ ret'.val = heap[a].payload
         /\ heap'[a] = [heap[a] EXCEPT !.strong = @ - 1]
         /\ \A b \in Blocks \ {a} : heap'[b] = heap[b]
         /\ \A h \in Handles : cells'[h] = cells[h] /\ (Live(h) => Observe(h)' = Observe(h))
  /\ \A a \in Blocks :
       heap[a].alloc /\ heap[a].strong > 0 =>
         heap'[a].payload = heap[a].payload \/ heap'[a].moved

\* A thread between try_unwrap and the copy holds a reference to a block
\* whose payload is in place.
ConsumeInv ==
  \A a \in Blocks :
    pc[<<"unwrap_or_else", a>>] > 0 =>
      /\ heap[a].alloc /\ heap[a].drops = 0 /\ ~heap[a].moved
      /\ heap[a].strong =
           Cardinality(Referring(a)) + pc[<<"unwrap_or_else", a>>]

C12_Consume == []ConsumeInv /\ [][ConsumeStep]_vars

\* C12 witness: a consume of a shared cell has returned a copy; no block was
\* ever taken apart, and the other handle still shows the value, now as the
\* only reference.
C12_Witness ==
  /\ ret.op = "from_ddvalue" /\ ret.val = <<98>>
  /\ \A a \in Blocks : ~heap[a].moved /\ heap[a].drops = 0
  /\ \E h \in Handles :
       /\ IsHeap(h) /\ Observe(h) = <<98>>
       /\ heap[BlockOf(cells[h].val)].strong = 1

\* C12 second witness: the last reference has been consumed and the block
\* reclaimed without a copy.
C12_WitnessLast ==
  /\ ret.op = "from_ddvalue" /\ ret.val = <<98>>
  /\ \E a \in Blocks : heap[a].moved /\ heap[a].drops = 0 /\ Referring(a) = {}

\* C13: a successful mutate of a heap cell releases the reference the cell
\* held to its old block, so that under erase, clone, mutate and drop no
\* block is left with a positive count and no cell referring to it.
C13_NoLeak ==
  \A a \in Blocks :
    heap[a].alloc /\ heap[a].strong > 0 => Referring(a) # {}

\* C13 witness: after a successful mutate of the only handle of a block, the
\* block keeps its count of one and its payload, and no cell refers to it.
C13_Witness ==
  /\ ret.op = "mutate" /\ ret.val.ok
  /\ \E a \in Blocks :
       /\ heap[a].strong = 1 /\ heap[a].payload = <<97>> /\ Referring(a) = {}
       /\ pc[<<"drop_slow", a>>] = 0
  /\ \E h \in Handles : IsHeap(h) /\ Observe(h) = <<98>>

\* C14: a mutate with a record that is not representable for the cell's type
\* returns an error string and changes nothing: every cell keeps its word
\* and every block its count and payload.  A mutate with a representable
\* record succeeds, and only a mutate that succeeds changes a cell.
C14_FailedMutate ==
  [][\A h \in Handles, i \in DOMAIN MachineRecords :
       ret'.op = "mutate" /\ Mutate(h, MachineRecords[i]) =>
         /\ ret'.val.ok = Representable(cells[h].vtable, MachineRecords[i])
         /\ ~ret'.val.ok =>
              /\ ret'.val.val = "cannot convert record"
              /\ cells' = cells /\ heap' = heap /\ pc' = pc
         /\ cells' # cells => ret'.val.ok]_vars

\* C14 witness: a mutate of a heap cell shared with a clone has failed; both
\* handles refer to the one block, whose count is two.
C14_Witness ==
  /\ ret.op = "mutate" /\ ~ret.val.ok
  /\ IsHeap(1) /\ IsHeap(2) /\ cells[1] = cells[2]
  /\ heap[BlockOf(cells[1].val)].strong = 2
  /\ Observe(1) = <<97>>

====
